---- MODULE Spec2Model ----
(***************************************************************************)
(* Model of popup.js of the Notebook extension: the in-memory STATE, the   *)
(* STORAGE debounced-save scheduler, the TABS controller and the parts of  *)
(* EDITOR they read and write.                                             *)
(*                                                                         *)
(* Every handler of the program is a function from machine state to        *)
(* machine state (a record with the fields of MachineFields), so that a    *)
(* handler that calls another one (createTab -> switchTo, a timer ->       *)
(* flush, an animation frame -> its callbacks) is the composition of the   *)
(* two.  An action applies one handler to the current state.               *)
(*                                                                         *)
(* Time is in milliseconds.  Date.now() and the timer clock are the one    *)
(* variable now; a timer fires when its due time is reached and time does  *)
(* not pass a due timer.                                                   *)
(***************************************************************************)
EXTENDS Integers, Sequences, FiniteSets, TLC

VARIABLES
    phase,          \* "loading": init() awaits STORAGE.load(); "ready": init() has run to its end
    tabs,           \* STATE.tabs
    activeTabId,    \* STATE.activeTabId
    isDirty,        \* STATE.isDirty
    saveTimer,      \* STATE.saveTimer: a timer handle, or NoTimer for null
    timers,         \* the host's table of armed timeouts: set of [id, due]
    editorHTML,     \* EDITOR.el.innerHTML
    theme,          \* the colour scheme the host reports
    stored,         \* chrome.storage.local under STORAGE.KEY
    loadResult,     \* what the get() issued by init() resolves to
    rafQueue,       \* callbacks passed to requestAnimationFrame, in order
    domIds,         \* ids of the .tab-item elements, as of the last redraw
    dragTabId,      \* TABS._dragTabId
    dropTabId,      \* TABS._dropTabId
    dropPos,        \* TABS._dropPos
    didDrag,        \* TABS._didDrag
    renaming,       \* id of the tab whose rename input is open, or Null
    now,            \* the clock
    lastScheduleAt, \* history: the time of the last scheduleSave() call
    firstScheduleAt,\* history: the time of the first scheduleSave() call made
                    \*   since the last flush (the start of the last burst)
    lastOp,         \* history: the handler that ran last
    events,         \* history: how many user and host events were delivered
    plainText,      \* the text LINKS is given: the clipboard's text/plain, and
                    \*   the content of the text node the caret is in
    linkified,      \* what linkifyPlainText returned for plainText
    dom,            \* the child nodes of the caret's parent, in order
    caret           \* the collapsed selection: [node, offset, inLink]

vars == <<phase, tabs, activeTabId, isDirty, saveTimer, timers, editorHTML,
          theme, stored, loadResult, rafQueue, domIds, dragTabId, dropTabId,
          dropPos, didDrag, renaming, now, lastScheduleAt,
          firstScheduleAt, lastOp, events, plainText, linkified, dom, caret>>

linkVars == <<plainText, linkified, dom, caret>>

-----------------------------------------------------------------------------
(* Bounds of the model *)

MaxEvents == 2
MaxTime == 900
MaxPieces == 3

(* Program constants *)

SaveDelay == 600

-----------------------------------------------------------------------------
(* Values *)

Null == "null"
NoTimer == 0
NeverScheduled == 0 - 1

\* The clock advances in steps of half a save window.
TickSteps == {SaveDelay \div 2}

\* innerHTML values the editing surface can hold.  "<br>" is the lone line
\* break a contenteditable leaves when emptied; HlLight and HlDark are the
\* same highlighted text carrying the light and the dark theme's colour.
HlLight == "<mark light>"
HlDark == "<mark dark>"
RawHTML == {"", "<br>", "a", HlLight, HlDark}

Themes == {"light", "dark"}

TabId(t) == "tab-" \o ToString(t)
StaleId == "tab-gone"

Min(a, b) == IF a < b THEN a ELSE b

-----------------------------------------------------------------------------
(* The machine state the handlers transform *)

Cur ==
    [tabs |-> tabs, activeTabId |-> activeTabId, isDirty |-> isDirty,
     saveTimer |-> saveTimer, timers |-> timers, editorHTML |-> editorHTML,
     stored |-> stored, rafQueue |-> rafQueue, domIds |-> domIds,
     dragTabId |-> dragTabId, dropTabId |-> dropTabId, dropPos |-> dropPos,
     didDrag |-> didDrag, renaming |-> renaming,
     lastScheduleAt |-> lastScheduleAt, firstScheduleAt |-> firstScheduleAt]

Becomes(s) ==
    /\ tabs' = s.tabs
    /\ activeTabId' = s.activeTabId
    /\ isDirty' = s.isDirty
    /\ saveTimer' = s.saveTimer
    /\ timers' = s.timers
    /\ editorHTML' = s.editorHTML
    /\ stored' = s.stored
    /\ rafQueue' = s.rafQueue
    /\ domIds' = s.domIds
    /\ dragTabId' = s.dragTabId
    /\ dropTabId' = s.dropTabId
    /\ dropPos' = s.dropPos
    /\ didDrag' = s.didDrag
    /\ renaming' = s.renaming
    /\ lastScheduleAt' = s.lastScheduleAt
    /\ firstScheduleAt' = s.firstScheduleAt

-----------------------------------------------------------------------------
(* Array helpers *)

\* Array.prototype.findIndex on t.id === id, 1-based; 0 stands for -1.
\* Array.prototype.find returns the element at this index.
findIndex(ts, id) ==
    IF \E i \in 1..Len(ts) : ts[i].id = id
    THEN CHOOSE i \in 1..Len(ts) :
            /\ ts[i].id = id
            /\ \A j \in 1..(i - 1) : ts[j].id # id
    ELSE 0

\* splice(idx, 1)
removeAt(ts, i) == [k \in 1..(Len(ts) - 1) |-> IF k < i THEN ts[k] ELSE ts[k + 1]]

\* splice(idx, 0, x) with a 0-based idx, clamped to the length like splice
insertAt(ts, idx0, x) ==
    LET at == Min(idx0, Len(ts)) IN
    [k \in 1..(Len(ts) + 1) |->
        IF k <= at THEN ts[k] ELSE IF k = at + 1 THEN x ELSE ts[k - 1]]

idsOf(ts) == [k \in 1..Len(ts) |-> ts[k].id]

-----------------------------------------------------------------------------
(* EDITOR *)

getHTML(s) == IF s.editorHTML = "<br>" THEN "" ELSE s.editorHTML

\* Rewrites a known highlight colour of either theme to that of theme th,
\* the one the style sheet is in when the function runs.
normalizeHighlightColorsToTheme(html, th) ==
    IF html \in {HlLight, HlDark}
    THEN (IF th = "light" THEN HlLight ELSE HlDark)
    ELSE html

setHTML(s, html) ==
    [s EXCEPT !.editorHTML = normalizeHighlightColorsToTheme(html, theme)]

-----------------------------------------------------------------------------
(* Host timers *)

clearTimeout(ts, h) == {t \in ts : t.id # h}

\* setTimeout returns a handle no armed timer has.
newHandle(ts) ==
    CHOOSE h \in 1..(Cardinality(ts) + 1) :
        /\ \A t \in ts : t.id # h
        /\ \A g \in 1..(h - 1) : \E t \in ts : t.id = g

-----------------------------------------------------------------------------
(* STORAGE *)

\* What the store holds under STORAGE.KEY: present tells whether the key
\* holds an object, hasTabs whether that object has a tabs list.
Absent == [present |-> FALSE, hasTabs |-> FALSE, activeTabId |-> Null,
           tabs |-> <<>>]

\* load resolves to the object under the key, or to null
load(st) == IF st.present THEN st ELSE Absent

\* save that writes the tabs only
save_tabsOnly(s, data) ==
    [s EXCEPT !.stored = [present |-> TRUE, hasTabs |-> TRUE,
                          activeTabId |-> Null,
                          tabs |-> data.tabs]]

save(s, data) ==
    [s EXCEPT !.stored = [present |-> TRUE, hasTabs |-> TRUE,
                          activeTabId |-> data.activeTabId,
                          tabs |-> data.tabs]]

\* flush that saves before it captures the editor content
flush_saveFirst(s) ==
    LET cleared == IF s.saveTimer # NoTimer
                   THEN clearTimeout(s.timers, s.saveTimer)
                   ELSE s.timers
        i == findIndex(s.tabs, s.activeTabId)
        captured == IF i # 0
                    THEN [s.tabs EXCEPT ![i].content = getHTML(s),
                                        ![i].updatedAt = now]
                    ELSE s.tabs
        s1 == [s EXCEPT !.isDirty = FALSE, !.timers = cleared,
                        !.saveTimer = NoTimer]
    IN [save(s1, [activeTabId |-> s1.activeTabId, tabs |-> s1.tabs])
            EXCEPT !.tabs = captured]

\* flush that stamps every note, not only the active one
flush_touchAll(s) ==
    LET cleared == IF s.saveTimer # NoTimer
                   THEN clearTimeout(s.timers, s.saveTimer)
                   ELSE s.timers
        i == findIndex(s.tabs, s.activeTabId)
        captured == [k \in 1..Len(s.tabs) |->
                        IF k = i
                        THEN [s.tabs[k] EXCEPT !.content = getHTML(s),
                                               !.updatedAt = now]
                        ELSE [s.tabs[k] EXCEPT !.updatedAt = now]]
        s1 == [s EXCEPT !.isDirty = FALSE, !.timers = cleared,
                        !.saveTimer = NoTimer, !.tabs = captured]
    IN save(s1, [activeTabId |-> s1.activeTabId, tabs |-> s1.tabs])

\* flush that forgets the handle without clearing the timeout
flush_keepTimer(s) ==
    LET i == findIndex(s.tabs, s.activeTabId)
        captured == IF i # 0
                    THEN [s.tabs EXCEPT ![i].content = getHTML(s),
                                        ![i].updatedAt = now]
                    ELSE s.tabs
        s1 == [s EXCEPT !.isDirty = FALSE, !.saveTimer = NoTimer,
                        !.tabs = captured]
    IN save(s1, [activeTabId |-> s1.activeTabId, tabs |-> s1.tabs])

flush(s) ==
    LET cleared == IF s.saveTimer # NoTimer
                   THEN clearTimeout(s.timers, s.saveTimer)
                   ELSE s.timers
        i == findIndex(s.tabs, s.activeTabId)
        captured == IF i # 0
                    THEN [s.tabs EXCEPT ![i].content = getHTML(s),
                                        ![i].updatedAt = now]
                    ELSE s.tabs
        s1 == [s EXCEPT !.isDirty = FALSE, !.timers = cleared,
                        !.saveTimer = NoTimer, !.tabs = captured]
    IN save(s1, [activeTabId |-> s1.activeTabId, tabs |-> s1.tabs])

\* scheduleSave without clearTimeout: the timer it replaces stays armed
scheduleSave_noClear(s) ==
    LET h == newHandle(s.timers) IN
    [s EXCEPT !.isDirty = TRUE,
              !.timers = @ \cup {[id |-> h, due |-> now + SaveDelay]},
              !.saveTimer = h,
              !.lastScheduleAt = now,
              !.firstScheduleAt = IF s.isDirty THEN @ ELSE now]

\* scheduleSave that cancels the armed timer and arms none
scheduleSave_noArm(s) ==
    [s EXCEPT !.isDirty = TRUE,
              !.timers = IF s.saveTimer # NoTimer
                         THEN clearTimeout(@, s.saveTimer)
                         ELSE @,
              !.saveTimer = NoTimer,
              !.lastScheduleAt = now,
              !.firstScheduleAt = IF s.isDirty THEN @ ELSE now]

\* scheduleSave that leaves an armed timer alone instead of re-arming it:
\* the flush then comes one window after the first call of a burst.
scheduleSave_keepArmed(s) ==
    IF s.saveTimer # NoTimer
    THEN [s EXCEPT !.isDirty = TRUE, !.lastScheduleAt = now]
    ELSE LET h == newHandle(s.timers) IN
         [s EXCEPT !.isDirty = TRUE,
                   !.timers = @ \cup {[id |-> h, due |-> now + SaveDelay]},
                   !.saveTimer = h,
                   !.lastScheduleAt = now,
                   !.firstScheduleAt = now]

scheduleSave(s) ==
    LET cleared == IF s.saveTimer # NoTimer
                   THEN clearTimeout(s.timers, s.saveTimer)
                   ELSE s.timers
        h == newHandle(cleared)
    IN [s EXCEPT !.isDirty = TRUE,
                 !.timers = cleared \cup {[id |-> h, due |-> now + SaveDelay]},
                 !.saveTimer = h,
                 !.lastScheduleAt = now,
                 !.firstScheduleAt = IF s.isDirty THEN @ ELSE now]

-----------------------------------------------------------------------------
(* TABS *)

\* redraw() rebuilds the tab items from STATE.tabs.  replaceChildren drops
\* the old items and with them an open rename input, whose value is lost.
redraw(s) == [s EXCEPT !.domIds = idsOf(s.tabs), !.renaming = Null]

\* The callback switchTo passes to requestAnimationFrame.
switchCallback(s, tabId) ==
    LET i == findIndex(s.tabs, tabId)
        s1 == setHTML(s, IF i # 0 THEN s.tabs[i].content ELSE "")
    IN scheduleSave(redraw(s1))

\* switchTo that never stores the editor content in the tab it leaves
switchTo_noCapture(s, tabId, skipSave) ==
    IF tabId = s.activeTabId
    THEN s
    ELSE [s EXCEPT !.activeTabId = tabId,
                   !.rafQueue = Append(@, [kind |-> "switch", tabId |-> tabId])]

\* switchTo without its first line, the return when tabId is already active
switchTo_noActiveCheck(s, tabId, skipSave) ==
    LET i == findIndex(s.tabs, s.activeTabId)
        saved == IF ~skipSave /\ i # 0
                 THEN [s.tabs EXCEPT ![i].content = getHTML(s),
                                     ![i].updatedAt = now]
                 ELSE s.tabs
    IN [s EXCEPT !.tabs = saved,
                 !.activeTabId = tabId,
                 !.rafQueue = Append(@, [kind |-> "switch", tabId |-> tabId])]

switchTo(s, tabId, skipSave) ==
    IF tabId = s.activeTabId
    THEN s
    ELSE
        LET i == findIndex(s.tabs, s.activeTabId)
            saved == IF ~skipSave /\ i # 0
                     THEN [s.tabs EXCEPT ![i].content = getHTML(s),
                                         ![i].updatedAt = now]
                     ELSE s.tabs
        IN [s EXCEPT !.tabs = saved,
                     !.activeTabId = tabId,
                     !.rafQueue = Append(@, [kind |-> "switch", tabId |-> tabId])]

NoteName(n) == "Note " \o ToString(n)

\* createTab also asks for an animation frame that scrolls the tab strip and
\* focuses the editor; it touches nothing modelled here and is left out.
createTab(s) ==
    LET i == findIndex(s.tabs, s.activeTabId)
        saved == IF i # 0
                 THEN [s.tabs EXCEPT ![i].content = getHTML(s),
                                     ![i].updatedAt = now]
                 ELSE s.tabs
        newTab == [id |-> TabId(now), name |-> NoteName(Len(s.tabs) + 1),
                   content |-> "", createdAt |-> now, updatedAt |-> now]
        s1 == [s EXCEPT !.tabs = Append(saved, newTab)]
    IN switchTo(s1, newTab.id, TRUE)

\* deleteTab that activates the note before the removed one, not the one
\* that followed it
deleteTab_prevNeighbor(s, tabId, confirmed) ==
    LET idx == findIndex(s.tabs, tabId) IN
    IF Len(s.tabs) <= 1 THEN s
    ELSE IF idx = 0 THEN s
    ELSE IF ~confirmed THEN s
    ELSE
        LET rest == removeAt(s.tabs, idx)
            s1 == [s EXCEPT !.tabs = rest]
            neighborIdx == IF idx > 1 THEN idx - 1 ELSE 1
            s2 == IF s.activeTabId = tabId
                  THEN setHTML([s1 EXCEPT !.activeTabId = rest[neighborIdx].id],
                               rest[neighborIdx].content)
                  ELSE s1
        IN scheduleSave(redraw(s2))

\* deleteTab without its first line, the guard on the number of tabs; taking
\* the neighbour of the only tab throws after the splice.
deleteTab_noLengthGuard(s, tabId, confirmed) ==
    LET idx == findIndex(s.tabs, tabId) IN
    IF idx = 0 THEN s
    ELSE IF ~confirmed THEN s
    ELSE
        LET rest == removeAt(s.tabs, idx)
            s1 == [s EXCEPT !.tabs = rest]
            neighborIdx == Min(idx - 1, Len(rest) - 1) + 1
        IN
        IF s.activeTabId = tabId /\ rest = <<>> THEN s1
        ELSE
            LET s2 == IF s.activeTabId = tabId
                      THEN setHTML([s1 EXCEPT !.activeTabId = rest[neighborIdx].id],
                                   rest[neighborIdx].content)
                      ELSE s1
            IN scheduleSave(redraw(s2))

\* confirmed is the answer of the confirm() dialog.
\* deleteTab that selects the neighbour and loads it into the editor whether
\* or not the deleted tab was the active one
deleteTab_alwaysSelect(s, tabId, confirmed) ==
    LET idx == findIndex(s.tabs, tabId) IN
    IF Len(s.tabs) <= 1 THEN s
    ELSE IF idx = 0 THEN s
    ELSE IF ~confirmed THEN s
    ELSE
        LET rest == removeAt(s.tabs, idx)
            s1 == [s EXCEPT !.tabs = rest]
            neighborIdx == Min(idx - 1, Len(rest) - 1) + 1
            s2 == setHTML([s1 EXCEPT !.activeTabId = rest[neighborIdx].id],
                          rest[neighborIdx].content)
        IN scheduleSave(redraw(s2))

deleteTab(s, tabId, confirmed) ==
    LET idx == findIndex(s.tabs, tabId) IN
    IF Len(s.tabs) <= 1 THEN s
    ELSE IF idx = 0 THEN s
    ELSE IF ~confirmed THEN s
    ELSE
        LET rest == removeAt(s.tabs, idx)
            s1 == [s EXCEPT !.tabs = rest]
            neighborIdx == Min(idx - 1, Len(rest) - 1) + 1
            s2 == IF s.activeTabId = tabId
                  THEN setHTML([s1 EXCEPT !.activeTabId = rest[neighborIdx].id],
                               rest[neighborIdx].content)
                  ELSE s1
        IN scheduleSave(redraw(s2))

\* startRename up to the point where the input is open.  The commit and
\* cancel closures it installs are commitRename and cancelRename.
startRename(s, tabId) ==
    IF tabId # s.activeTabId
    THEN [switchTo(s, tabId, FALSE) EXCEPT
              !.rafQueue = Append(@, [kind |-> "rename", tabId |-> tabId])]
    ELSE IF s.renaming = tabId THEN s
    ELSE [s EXCEPT !.renaming = tabId]

\* The callback startRename passes to requestAnimationFrame: it looks the
\* item up in the tab strip, which the switch callback before it has redrawn.
renameCallback(s, tabId) ==
    IF \E k \in 1..Len(s.domIds) : s.domIds[k] = tabId
    THEN startRename(s, tabId)
    ELSE s

\* String.prototype.trim on a sequence of characters
RECURSIVE trimStart(_)
trimStart(cs) ==
    IF cs # <<>> /\ Head(cs) = " " THEN trimStart(Tail(cs)) ELSE cs

RECURSIVE trimEnd(_)
trimEnd(cs) ==
    IF cs # <<>> /\ cs[Len(cs)] = " "
    THEN trimEnd(SubSeq(cs, 1, Len(cs) - 1))
    ELSE cs

trim(cs) == trimEnd(trimStart(cs))

RECURSIVE join(_)
join(cs) == IF cs = <<>> THEN "" ELSE Head(cs) \o join(Tail(cs))

\* commit that takes input.value as typed, without trim()
commitRename_noTrim(s, value) ==
    LET newName == join(value)
        i == findIndex(s.tabs, s.renaming)
        named == IF newName # "" /\ i # 0
                 THEN scheduleSave([s EXCEPT !.tabs[i].name = newName,
                                             !.tabs[i].updatedAt = now])
                 ELSE s
    IN redraw(named)

\* The commit closure; value is input.value, tab the note startRename found.
commitRename(s, value) ==
    LET newName == join(trim(value))
        i == findIndex(s.tabs, s.renaming)
        named == IF newName # "" /\ i # 0
                 THEN scheduleSave([s EXCEPT !.tabs[i].name = newName,
                                             !.tabs[i].updatedAt = now])
                 ELSE s
    IN redraw(named)

cancelRename(s) == [s EXCEPT !.renaming = Null]

onDragStart(s, tabId) ==
    [s EXCEPT !.dragTabId = tabId, !.dropTabId = Null, !.dropPos = Null,
              !.didDrag = FALSE]

onDragOver(s, tabId, pos) ==
    IF s.dragTabId = Null \/ s.dragTabId = tabId THEN s
    ELSE IF s.dropTabId # tabId \/ s.dropPos # pos
    THEN [s EXCEPT !.dropTabId = tabId, !.dropPos = pos]
    ELSE s

clearDragState(s) ==
    [s EXCEPT !.dragTabId = Null, !.dropTabId = Null, !.dropPos = Null]

\* onDrop without `if (fromIdx < toIdx) toIdx -= 1`, the correction for the
\* slot the dragged tab left behind
onDrop_noAdjust(s, tabId) ==
    IF s.dragTabId = Null \/ s.dragTabId = tabId THEN s
    ELSE
        LET fromIdx == findIndex(s.tabs, s.dragTabId)
            targetIdx == findIndex(s.tabs, tabId)
        IN
        IF fromIdx = 0 \/ targetIdx = 0 THEN clearDragState(s)
        ELSE
            LET toIdx == (targetIdx - 1) + (IF s.dropPos = "after" THEN 1 ELSE 0)
                moved == s.tabs[fromIdx]
                rest == removeAt(s.tabs, fromIdx)
                s1 == [s EXCEPT !.tabs = insertAt(rest, toIdx, moved),
                                !.didDrag = TRUE]
            IN scheduleSave(redraw(s1))

onDrop(s, tabId) ==
    IF s.dragTabId = Null \/ s.dragTabId = tabId THEN s
    ELSE
        LET fromIdx == findIndex(s.tabs, s.dragTabId)
            targetIdx == findIndex(s.tabs, tabId)
        IN
        IF fromIdx = 0 \/ targetIdx = 0 THEN clearDragState(s)
        ELSE
            LET toIdx0 == (targetIdx - 1) + (IF s.dropPos = "after" THEN 1 ELSE 0)
                moved == s.tabs[fromIdx]
                rest == removeAt(s.tabs, fromIdx)
                toIdx == IF fromIdx - 1 < toIdx0 THEN toIdx0 - 1 ELSE toIdx0
                s1 == [s EXCEPT !.tabs = insertAt(rest, toIdx, moved),
                                !.didDrag = TRUE]
            IN scheduleSave(redraw(s1))

\* The click listener of a tab item, for a click outside its delete button.
itemClick(s, tabId) ==
    IF s.didDrag THEN [s EXCEPT !.didDrag = FALSE]
    ELSE switchTo(s, tabId, FALSE)

-----------------------------------------------------------------------------
(* init() *)

\* init() without the validation of the stored activeTabId
initLoaded_keepActive(s, data) ==
    LET fromStore == data.present /\ data.hasTabs /\ Len(data.tabs) > 0
        defaultTab == [id |-> TabId(now), name |-> "Note 1", content |-> "",
                       createdAt |-> now, updatedAt |-> now]
        ts == IF fromStore THEN data.tabs ELSE <<defaultTab>>
        act == IF fromStore THEN data.activeTabId ELSE defaultTab.id
        s1 == [s EXCEPT !.tabs = ts, !.activeTabId = act]
        i == findIndex(ts, act)
    IN redraw(setHTML(s1, IF i # 0 THEN ts[i].content ELSE ""))

\* init() without the `stored.tabs.length > 0` test: with an empty list
\* STATE.tabs[0].id throws and init() ends there.
initLoaded_noLengthTest(s, data) ==
    LET fromStore == data.present /\ data.hasTabs
        defaultTab == [id |-> TabId(now), name |-> "Note 1", content |-> "",
                       createdAt |-> now, updatedAt |-> now]
        ts == IF fromStore THEN data.tabs ELSE <<defaultTab>>
    IN
    IF ts = <<>>
    THEN [s EXCEPT !.tabs = ts, !.activeTabId = data.activeTabId]
    ELSE
        LET act == IF fromStore
                   THEN (IF findIndex(ts, data.activeTabId) # 0
                         THEN data.activeTabId
                         ELSE ts[1].id)
                   ELSE defaultTab.id
            s1 == [s EXCEPT !.tabs = ts, !.activeTabId = act]
            i == findIndex(ts, act)
        IN redraw(setHTML(s1, IF i # 0 THEN ts[i].content ELSE ""))

\* init() after `await storedPromise`, given what the store returned.
\* TABS.render is redraw; the focus frame it asks for changes nothing here.
initLoaded(s, data) ==
    LET fromStore == data.present /\ data.hasTabs /\ Len(data.tabs) > 0
        defaultTab == [id |-> TabId(now), name |-> "Note 1", content |-> "",
                       createdAt |-> now, updatedAt |-> now]
        ts == IF fromStore THEN data.tabs ELSE <<defaultTab>>
        act == IF fromStore
               THEN (IF findIndex(ts, data.activeTabId) # 0
                     THEN data.activeTabId
                     ELSE ts[1].id)
               ELSE defaultTab.id
        s1 == [s EXCEPT !.tabs = ts, !.activeTabId = act]
        i == findIndex(ts, act)
    IN redraw(setHTML(s1, IF i # 0 THEN ts[i].content ELSE ""))

\* The input listener EDITOR.mount installs; raw is the innerHTML the edit left.
onInput(s, raw) ==
    scheduleSave([s EXCEPT !.editorHTML = IF raw = "<br>" THEN "" ELSE raw])

\* handleThemeChange, run when the host has switched to theme th.
handleThemeChange(s, th) ==
    scheduleSave([s EXCEPT !.editorHTML = normalizeHighlightColorsToTheme(@, th)])

\* clearContent that does not wait for the answer of its dialog
clearContent_noConfirm(s, confirmed) == scheduleSave(setHTML(s, ""))

\* The clearContent toolbar action
clearContent(s, confirmed) ==
    IF ~confirmed THEN s ELSE scheduleSave(setHTML(s, ""))

runCallback(s, cb) ==
    IF cb.kind = "switch" THEN switchCallback(s, cb.tabId)
    ELSE renameCallback(s, cb.tabId)

\* One animation frame: the callbacks queued before it run in order; what
\* they queue waits for the next frame.
RECURSIVE runCallbacks(_, _)
runCallbacks(s, q) ==
    IF q = <<>> THEN s ELSE runCallbacks(runCallback(s, Head(q)), Tail(q))

animationFrame(s) == runCallbacks([s EXCEPT !.rafQueue = <<>>], s.rafQueue)

-----------------------------------------------------------------------------
(* LINKS.  A text is the sequence of its characters. *)

Lower ==
    {"a", "b", "c", "d", "e", "f", "g", "h", "i", "j", "k", "l", "m",
     "n", "o", "p", "q", "r", "s", "t", "u", "v", "w", "x", "y", "z"}
Upper ==
    {"A", "B", "C", "D", "E", "F", "G", "H", "I", "J", "K", "L", "M",
     "N", "O", "P", "Q", "R", "S", "T", "U", "V", "W", "X", "Y", "Z"}
Digits == {"0", "1", "2", "3", "4", "5", "6", "7", "8", "9"}

\* [A-Za-z0-9]
Alnum == Lower \cup Upper \cup Digits

\* \w
WordChars == Alnum \cup {"_"}

\* \s, as far as the texts here hold it
Whitespace == {" ", "\t", "\n", "\r"}

\* [.,;:!?)\]'"]
TrailingPunctuation == {".", ",", ";", ":", "!", "?", ")", "]", "'", "\""}

Http == <<"h", "t", "t", "p", ":", "/", "/">>
Https == <<"h", "t", "t", "p", "s", ":", "/", "/">>
PortalPrefix == <<"P", "O", "R", "T", "A", "L", "-">>
PortalBase ==
    <<"h", "t", "t", "p", "s", ":", "/", "/", "o", "n", "2", "4", "-",
    "i", "n", "c", ".", "a", "t", "l", "a", "s", "s", "i", "a", "n", ".",
    "n", "e", "t", "/", "b", "r", "o", "w", "s", "e", "/">>

StartsWith(cs, i, p) ==
    /\ i >= 1
    /\ i + Len(p) - 1 <= Len(cs)
    /\ \A k \in 1..Len(p) : cs[i + k - 1] = p[k]

\* \S+ from i: the index of the last character of the run, i - 1 if empty
RECURSIVE nonSpaceEnd(_, _)
nonSpaceEnd(cs, i) ==
    IF i <= Len(cs) /\ cs[i] \notin Whitespace
    THEN nonSpaceEnd(cs, i + 1)
    ELSE i - 1

\* [A-Za-z0-9]+ from i: the index of the last character of the run
RECURSIVE alnumEnd(_, _)
alnumEnd(cs, i) ==
    IF i <= Len(cs) /\ cs[i] \in Alnum
    THEN alnumEnd(cs, i + 1)
    ELSE i - 1

isWordAt(cs, k) == k >= 1 /\ k <= Len(cs) /\ cs[k] \in WordChars

\* https?:\/\/\S+ tried at i: the index of the last character matched, 0 if
\* it does not match there
urlEnd(cs, i) ==
    LET n == IF StartsWith(cs, i, Https) THEN Len(Https)
             ELSE IF StartsWith(cs, i, Http) THEN Len(Http)
             ELSE 0
        e == nonSpaceEnd(cs, i + n)
    IN IF n # 0 /\ e >= i + n THEN e ELSE 0

\* \bPORTAL-[A-Za-z0-9]+\b tried at i
portalEnd(cs, i) ==
    LET e == alnumEnd(cs, i + Len(PortalPrefix)) IN
    IF /\ StartsWith(cs, i, PortalPrefix)
       /\ ~isWordAt(cs, i - 1)
       /\ e >= i + Len(PortalPrefix)
       /\ ~isWordAt(cs, e + 1)
    THEN e
    ELSE 0

\* URL_OR_PORTAL_RE tried at i
tokenEnd(cs, i) == IF urlEnd(cs, i) # 0 THEN urlEnd(cs, i) ELSE portalEnd(cs, i)

\* URL_OR_PORTAL_RE.exec from index from: where the next token starts, 0 if
\* there is none
RECURSIVE nextToken(_, _)
nextToken(cs, from) ==
    IF from > Len(cs) THEN 0
    ELSE IF tokenEnd(cs, from) # 0 THEN from
    ELSE nextToken(cs, from + 1)

\* a replace without the +, which takes one trailing character off
trimTrailingPunctuation_once(cs) ==
    IF cs # <<>> /\ cs[Len(cs)] \in TrailingPunctuation
    THEN SubSeq(cs, 1, Len(cs) - 1)
    ELSE cs

\* rawToken.replace(/[.,;:!?)\]'"]+$/, '')
RECURSIVE trimTrailingPunctuation(_)
trimTrailingPunctuation(cs) ==
    IF cs # <<>> /\ cs[Len(cs)] \in TrailingPunctuation
    THEN trimTrailingPunctuation(SubSeq(cs, 1, Len(cs) - 1))
    ELSE cs

\* escapeHTML: each of & < > " becomes its entity, one element of the result
escapeHTML(cs) ==
    [k \in 1..Len(cs) |->
        IF cs[k] = "&" THEN "&amp;"
        ELSE IF cs[k] = "<" THEN "&lt;"
        ELSE IF cs[k] = ">" THEN "&gt;"
        ELSE IF cs[k] = "\"" THEN "&quot;"
        ELSE cs[k]]

\* The markup the functions build, as the nodes it stands for: a run of
\* text, an <a href=...>text</a>, a <br>.  An empty run adds nothing.
TextRun(cs) ==
    IF cs = <<>> THEN <<>> ELSE <<[tag |-> "#text", href |-> <<>>, text |-> cs]>>

Anchor(href, text) == <<[tag |-> "a", href |-> href, text |-> text]>>

Br == [tag |-> "br", href |-> <<>>, text |-> <<>>]

buildPortalUrl(token) == PortalBase \o token

IsUrlToken(rawToken) ==
    StartsWith(rawToken, 1, Http) \/ StartsWith(rawToken, 1, Https)

\* _linkifyLine from its loop variable last on
RECURSIVE linkifyFrom(_, _)
linkifyFrom(line, last) ==
    LET i == nextToken(line, last + 1) IN
    IF i = 0
    THEN TextRun(escapeHTML(SubSeq(line, last + 1, Len(line))))
    ELSE
        LET e == tokenEnd(line, i)
            rawToken == SubSeq(line, i, e)
            url == trimTrailingPunctuation(rawToken)
            trimmed == Len(rawToken) - Len(url)
            link == IF IsUrlToken(rawToken)
                    THEN Anchor(escapeHTML(url), escapeHTML(url)) \o
                         (IF trimmed > 0
                          THEN TextRun(escapeHTML(SubSeq(rawToken, Len(url) + 1,
                                                         Len(rawToken))))
                          ELSE <<>>)
                    ELSE Anchor(escapeHTML(buildPortalUrl(rawToken)),
                                escapeHTML(rawToken))
        IN TextRun(escapeHTML(SubSeq(line, last + 1, i - 1))) \o link \o
           linkifyFrom(line, e)

linkifyLine(line) == linkifyFrom(line, 0)

\* text.replace(/\r\n/g, '\n').replace(/\r/g, '\n')
RECURSIVE normalizeNewlines(_)
normalizeNewlines(cs) ==
    IF cs = <<>> THEN <<>>
    ELSE IF Head(cs) = "\r" /\ Len(cs) >= 2 /\ cs[2] = "\n"
    THEN <<"\n">> \o normalizeNewlines(SubSeq(cs, 3, Len(cs)))
    ELSE IF Head(cs) = "\r"
    THEN <<"\n">> \o normalizeNewlines(Tail(cs))
    ELSE <<Head(cs)>> \o normalizeNewlines(Tail(cs))

\* split('\n')
RECURSIVE splitLines(_, _)
splitLines(cs, line) ==
    IF cs = <<>> THEN <<line>>
    ELSE IF Head(cs) = "\n" THEN <<line>> \o splitLines(Tail(cs), <<>>)
    ELSE splitLines(Tail(cs), Append(line, Head(cs)))

\* lines.map(_linkifyLine).join('<br>')
RECURSIVE joinLines(_)
joinLines(lines) ==
    IF Len(lines) = 1 THEN linkifyLine(lines[1])
    ELSE linkifyLine(lines[1]) \o <<Br>> \o joinLines(Tail(lines))

linkifyPlainText(text) == joinLines(splitLines(normalizeNewlines(text), <<>>))

\* textBefore.match(/(https?:\/\/\S+)$/) tried from i on: where the match
\* starts, 0 if there is none
RECURSIVE urlBeforeCaret(_, _)
urlBeforeCaret(cs, i) ==
    IF i > Len(cs) THEN 0
    ELSE IF urlEnd(cs, i) = Len(cs) THEN i
    ELSE urlBeforeCaret(cs, i + 1)

\* tryAutoLinkBeforeCaret on the child nodes of the caret's parent and the
\* selection c, up to its scheduleSave(): the nodes and the selection it
\* leaves, and what it returns.  A node of the editor holds its text as it is.
tryAutoLinkBeforeCaret(nodes, c) ==
    LET node == nodes[c.node]
        textBefore == SubSeq(node.text, 1, c.offset)
        i == urlBeforeCaret(textBefore, 1)
        rawUrl == SubSeq(textBefore, i, Len(textBefore))
        url == trimTrailingPunctuation(rawUrl)
        urlOffset == c.offset - Len(rawUrl)
        before == SubSeq(node.text, 1, urlOffset)
        after == SubSeq(node.text, c.offset + 1, Len(node.text))
        anchor == [tag |-> "a", href |-> url, text |-> url]
        afterNode == [tag |-> "#text", href |-> <<>>, text |-> after]
        kept == IF before # <<>>
                THEN <<[node EXCEPT !.text = before]>>
                ELSE <<>>
    IN
    IF c.node = 0 \/ c.inLink
    THEN [dom |-> nodes, caret |-> c, replaced |-> FALSE]
    ELSE IF i = 0 \/ Len(url) < 8
    THEN [dom |-> nodes, caret |-> c, replaced |-> FALSE]
    ELSE [dom |-> SubSeq(nodes, 1, c.node - 1) \o kept \o <<anchor, afterNode>>
                  \o SubSeq(nodes, c.node + 1, Len(nodes)),
          caret |-> [node |-> c.node + Len(kept) + 1, offset |-> 0,
                     inLink |-> FALSE],
          replaced |-> TRUE]

-----------------------------------------------------------------------------
(* Persisted states a session can start from *)

OldTab(n, c) ==
    [id |-> TabId(0 - n), name |-> NoteName(4 - n), content |-> c,
     createdAt |-> 0 - n, updatedAt |-> 0 - n]

Snapshot(act, ts) ==
    [present |-> TRUE, hasTabs |-> TRUE, activeTabId |-> act, tabs |-> ts]

\* An object under the key that has no tabs list
NoTabsList ==
    [present |-> TRUE, hasTabs |-> FALSE, activeTabId |-> Null, tabs |-> <<>>]

InitialStores ==
    { Absent,
      NoTabsList,
      Snapshot(Null, <<>>),
      Snapshot(TabId(0 - 2), <<OldTab(2, "a")>>),
      Snapshot(TabId(0 - 1), <<OldTab(2, "a"), OldTab(1, HlDark)>>),
      Snapshot(StaleId, <<OldTab(2, "a"), OldTab(1, "")>>),
      Snapshot(TabId(0 - 2),
               <<OldTab(3, ""), OldTab(2, HlLight), OldTab(1, "a")>>) }

-----------------------------------------------------------------------------
(* Actions *)

\* A handler the page runs by itself or as part of a gesture under way:
\* a timer, a frame, the steps of a drag, the end of a rename.
Step(name, s) ==
    /\ Becomes(s)
    /\ lastOp' = name
    /\ UNCHANGED <<phase, loadResult, now, theme, events>>
    /\ UNCHANGED linkVars

\* A handler run for a new event from outside.  A drag gesture and a rename
\* session count as one event each, at their start.
Event(name, s) ==
    /\ events < MaxEvents
    /\ events' = events + 1
    /\ Becomes(s)
    /\ lastOp' = name
    /\ UNCHANGED <<phase, loadResult, now, theme>>
    /\ UNCHANGED linkVars

\* A handler that arms a timer, or asks for a frame that does, runs while the
\* clock leaves that timer the time to expire.
InHorizon == now + SaveDelay <= MaxTime

\* The user can act on the page: no drag gesture is under way and no rename
\* input has the focus (a click elsewhere would blur it and commit first).
UserIdle == InHorizon /\ dragTabId = Null /\ renaming = Null

TabsShown == phase = "ready" /\ UserIdle

InDom(id) == \E k \in 1..Len(domIds) : domIds[k] = id

DomIdSet == {domIds[k] : k \in 1..Len(domIds)}

\* The page as init() finds it, before the load resolves
InitPage ==
    /\ phase = "loading"
    /\ tabs = <<>>
    /\ activeTabId = Null
    /\ isDirty = FALSE
    /\ saveTimer = NoTimer
    /\ timers = {}
    /\ editorHTML = ""
    /\ theme = "light"
    /\ stored \in InitialStores
    /\ loadResult = load(stored)
    /\ rafQueue = <<>>
    /\ domIds = <<>>
    /\ dragTabId = Null
    /\ dropTabId = Null
    /\ dropPos = Null
    /\ didDrag = FALSE
    /\ renaming = Null
    /\ now = 0
    /\ lastScheduleAt = NeverScheduled
    /\ firstScheduleAt = NeverScheduled
    /\ lastOp = "none"
    /\ events = 0

\* Nothing is on the clipboard and the caret is in no text node.
NoCaret == [node |-> 0, offset |-> 0, inLink |-> FALSE]

Init ==
    /\ InitPage
    /\ plainText = <<>>
    /\ linkified = <<>>
    /\ dom = <<>>
    /\ caret = NoCaret

LoadComplete ==
    /\ phase = "loading"
    /\ phase' = "ready"
    /\ loadResult' = Absent
    /\ Becomes(initLoaded(Cur, loadResult))
    /\ lastOp' = "init"
    /\ UNCHANGED <<theme, now, events>>
    /\ UNCHANGED linkVars

Tick ==
    \E d \in TickSteps :
        /\ now + d <= MaxTime
        /\ \A t \in timers : now + d <= t.due
        /\ now' = now + d
        /\ UNCHANGED <<phase, tabs, activeTabId, isDirty, saveTimer, timers,
                       editorHTML, theme, stored, loadResult, rafQueue, domIds,
                       dragTabId, dropTabId, dropPos, didDrag, renaming,
                       lastScheduleAt, firstScheduleAt, lastOp, events>>
        /\ UNCHANGED linkVars

\* A due timeout runs its callback, which is STORAGE.flush().
TimerFire ==
    \E t \in timers :
        /\ t.due <= now
        /\ Step("timer", flush([Cur EXCEPT !.timers = @ \ {t}]))

\* visibilitychange to hidden; the listener is added at the end of init().
VisibilityHidden ==
    /\ phase = "ready"
    /\ Event("hidden", flush(Cur))

Input ==
    \E raw \in RawHTML :
        /\ UserIdle
        /\ raw # editorHTML
        /\ Event("input", onInput(Cur, raw))

ThemeChange ==
    /\ InHorizon
    /\ events < MaxEvents
    /\ events' = events + 1
    /\ theme' = IF theme = "light" THEN "dark" ELSE "light"
    /\ Becomes(handleThemeChange(Cur, theme'))
    /\ lastOp' = "theme"
    /\ UNCHANGED <<phase, loadResult, now>>
    /\ UNCHANGED linkVars

\* Click on the clear button, which is disabled while the editor is empty
ClearContent ==
    \E confirmed \in BOOLEAN :
        /\ UserIdle
        /\ getHTML(Cur) # ""
        /\ Event(IF confirmed THEN "clear" ELSE "clearDeclined",
                 clearContent(Cur, confirmed))


\* Click on the body of a tab item
ItemClick ==
    \E id \in DomIdSet :
        /\ TabsShown
        /\ Event("click", itemClick(Cur, id))

\* Space on a focused tab item
ItemSpace ==
    \E id \in DomIdSet :
        /\ TabsShown
        /\ Event("switchTo", switchTo(Cur, id, FALSE))

\* Click on the add button
AddTab ==
    /\ TabsShown
    /\ Event("createTab", createTab(Cur))

\* Click on the delete button of a tab item; redraw disables the button when
\* it draws a single tab.
DeleteClick ==
    \E id \in DomIdSet, confirmed \in BOOLEAN :
        /\ TabsShown
        /\ Len(domIds) > 1
        /\ Event(IF confirmed THEN "deleteTab" ELSE "deleteTabDeclined",
                 deleteTab(Cur, id, confirmed))

\* Double click on a tab label, or Enter on a focused tab item
StartRename ==
    \E id \in DomIdSet :
        /\ TabsShown
        /\ Event("startRename", startRename(Cur, id))

RenameInputs == { <<>>, <<" ", " ">>, <<" ", "x", " ">>, <<"x", " ", "y">> }

\* The states a frame can start from.  The redraw of a switch callback
\* removes an open rename input from the page; whether the host then sends
\* the input a blur event, which commits its value, is up to the host.
FrameStarts ==
    {Cur} \cup
    (IF renaming # Null /\ \E k \in 1..Len(rafQueue) : rafQueue[k].kind = "switch"
     THEN {commitRename(Cur, value) : value \in RenameInputs}
     ELSE {})

AnimationFrame ==
    /\ rafQueue # <<>>
    /\ InHorizon
    /\ \E s \in FrameStarts : Step("frame", animationFrame(s))

\* Blur of the rename input (Enter blurs it) with the typed value
CommitRename ==
    \E value \in RenameInputs :
        /\ renaming # Null
        /\ InHorizon
        /\ Step("commitRename", commitRename(Cur, value))

\* Escape in the rename input
CancelRename ==
    /\ renaming # Null
    /\ Step("cancelRename", cancelRename(Cur))

DragStart ==
    \E id \in DomIdSet :
        /\ TabsShown
        /\ Len(domIds) > 1
        /\ Event("dragstart", onDragStart(Cur, id))

\* The gesture is live from dragstart until its drop or dragend.
Dragging == dragTabId # Null /\ ~didDrag /\ InHorizon

DragOver ==
    \E id \in DomIdSet \ {dragTabId}, pos \in {"before", "after"} :
        /\ Dragging
        /\ Step("dragover", onDragOver(Cur, id, pos))

\* The host delivers drop to the item whose dragover accepted the drag last.
Drop ==
    /\ Dragging
    /\ dropTabId # Null
    /\ InDom(dropTabId)
    /\ Step("drop", onDrop(Cur, dropTabId))

DragEnd ==
    /\ dragTabId # Null
    /\ Step("dragend", clearDragState(Cur))

Next ==
    \/ LoadComplete
    \/ Tick
    \/ TimerFire
    \/ VisibilityHidden
    \/ Input
    \/ ThemeChange
    \/ ClearContent
    \/ AnimationFrame
    \/ ItemClick
    \/ ItemSpace
    \/ AddTab
    \/ DeleteClick
    \/ StartRename
    \/ CommitRename
    \/ CancelRename
    \/ DragStart
    \/ DragOver
    \/ Drop
    \/ DragEnd

Spec == Init /\ [][Next]_vars

-----------------------------------------------------------------------------
(* The operations called directly, with any id: the tab strip only ever
   passes ids of items it shows, the operations themselves accept any. *)

TabIdSet == {tabs[k].id : k \in 1..Len(tabs)}

CallSwitchTo ==
    \E id \in TabIdSet \cup {StaleId} :
        /\ TabsShown
        /\ Event("switchTo", switchTo(Cur, id, FALSE))

CallDeleteTab ==
    \E id \in TabIdSet \cup {StaleId}, confirmed \in BOOLEAN :
        /\ TabsShown
        /\ Event(IF confirmed THEN "deleteTab" ELSE "deleteTabDeclined",
                 deleteTab(Cur, id, confirmed))

CallStartRename ==
    \E id \in TabIdSet \cup {StaleId} :
        /\ TabsShown
        /\ Event("startRename", startRename(Cur, id))

\* A drag started for an id no tab has
CallOnDragStart ==
    /\ TabsShown
    /\ Event("dragstart", onDragStart(Cur, StaleId))

\* A drop on any id, whatever dragover recorded
CallOnDrop ==
    \E id \in TabIdSet \cup {StaleId} :
        /\ Dragging
        /\ Step("drop", onDrop(Cur, id))

NextApi ==
    \/ Next
    \/ CallSwitchTo
    \/ CallDeleteTab
    \/ CallStartRename
    \/ CallOnDragStart
    \/ CallOnDrop

SpecApi == Init /\ [][NextApi]_vars

\* The popup is closed and opened again.  The page with its STATE, timers,
\* frame callbacks and DOM is gone; the new page issues its get() as it
\* starts.  The store, the clock and the host's theme are what they were.
Reopen ==
    /\ events < MaxEvents
    /\ events' = events + 1
    /\ phase' = "loading"
    /\ tabs' = <<>>
    /\ activeTabId' = Null
    /\ isDirty' = FALSE
    /\ saveTimer' = NoTimer
    /\ timers' = {}
    /\ editorHTML' = ""
    /\ loadResult' = load(stored)
    /\ rafQueue' = <<>>
    /\ domIds' = <<>>
    /\ dragTabId' = Null
    /\ dropTabId' = Null
    /\ dropPos' = Null
    /\ didDrag' = FALSE
    /\ renaming' = Null
    /\ lastScheduleAt' = NeverScheduled
    /\ firstScheduleAt' = NeverScheduled
    /\ lastOp' = "reopen"
    /\ UNCHANGED <<stored, theme, now>>
    /\ UNCHANGED linkVars

NextReopen ==
    \/ Next
    \/ Reopen

SpecReopen == Init /\ [][NextReopen]_vars

-----------------------------------------------------------------------------
(* LINKS applied to texts *)

\* The pieces the texts are put together from: a scheme, a letter, a
\* punctuation mark the trimming takes, a space, a character escapeHTML
\* rewrites, the PORTAL prefix, and the two line ends.
Pieces ==
    {Http, <<"a">>, <<",">>, <<" ">>, <<"&">>, PortalPrefix, <<"\n">>, <<"\r">>}

RECURSIVE TextsOf(_)
TextsOf(n) ==
    IF n = 0 THEN {<<>>}
    ELSE LET shorter == TextsOf(n - 1) IN
         shorter \cup {t \o p : t \in shorter, p \in Pieces}

ExampleLine ==
    <<"s", "e", "e", " ", "h", "t", "t", "p", ":", "/", "/", "a", ".",
    "c", "o", "/", "x", ",", " ", "t", "h", "a", "n", "k", "s">>

LinkInputs == TextsOf(MaxPieces) \cup {ExampleLine}

\* The page with a text on the clipboard; the same text is the content of
\* the one text node of the editor, with the caret somewhere in it.
InitLinks ==
    /\ InitPage
    /\ stored = Absent
    /\ plainText \in LinkInputs
    /\ linkified = <<>>
    /\ dom = <<[tag |-> "#text", href |-> <<>>, text |-> plainText]>>
    /\ caret \in {[node |-> 1, offset |-> k, inLink |-> b] :
                      k \in 0..Len(plainText), b \in BOOLEAN}

\* LINKS.linkifyPlainText(text), as the paste listener calls it
Linkify ==
    /\ lastOp = "none"
    /\ linkified' = linkifyPlainText(plainText)
    /\ lastOp' = "linkify"
    /\ UNCHANGED <<phase, tabs, activeTabId, isDirty, saveTimer, timers,
                   editorHTML, theme, stored, loadResult, rafQueue, domIds,
                   dragTabId, dropTabId, dropPos, didDrag, renaming, now,
                   lastScheduleAt, firstScheduleAt, events, plainText, dom,
                   caret>>

\* Space or Enter typed in the editor: the keydown listener calls
\* LINKS.tryAutoLinkBeforeCaret(), which schedules a save if it made a link.
AutoLink ==
    /\ lastOp = "none"
    /\ LET r == tryAutoLinkBeforeCaret(dom, caret) IN
          /\ dom' = r.dom
          /\ caret' = r.caret
          /\ Becomes(IF r.replaced THEN scheduleSave(Cur) ELSE Cur)
          /\ lastOp' = IF r.replaced THEN "autolink" ELSE "autolinkNone"
    /\ UNCHANGED <<phase, loadResult, now, theme, events, plainText, linkified>>

NextLinks ==
    \/ Linkify
    \/ AutoLink

SpecLinks == InitLinks /\ [][NextLinks]_vars

\* The popup stays open: time passes and a due timeout runs its callback.
FairSpec == Spec /\ WF_vars(Tick) /\ WF_vars(TimerFire)

-----------------------------------------------------------------------------
(* Properties *)

Initialized == phase = "ready"

ActiveIndex == findIndex(tabs, activeTabId)

\* C1: once init() has run, the notes list holds at least one note, whatever
\* createTab, deleteTab, switchTo, rename, reorder, scheduleSave and flush
\* calls were made, with whatever ids.
C1_NotesNeverEmpty == Initialized => Len(tabs) >= 1

\* A confirmed deleteTab has run and a single note is left.
C1_Witness == Initialized /\ lastOp = "deleteTab" /\ Len(tabs) = 1

\* C2: once init() has run, activeTabId is the id of a note in the notes
\* list, whatever ids switchTo, deleteTab, rename and reorder are called with.
C2_ActiveIdResolves == Initialized => ActiveIndex # 0

\* C3: debounce coalescing.  While a save is pending exactly one timer is
\* armed, due one window after the LAST scheduleSave() call; the flush the
\* timer runs therefore comes one full window after the last call of the
\* burst, and it leaves nothing armed, so the burst is flushed once.
C3_DebounceCoalescing ==
    [][ /\ isDirty' =>
              timers' = {[id |-> saveTimer', due |-> lastScheduleAt' + SaveDelay]}
        /\ TimerFire =>
              /\ isDirty
              /\ now = lastScheduleAt + SaveDelay
              /\ ~isDirty'
              /\ timers' = {}
      ]_vars

\* The timer has flushed a burst whose first and last scheduleSave() calls
\* were made at different times, one window after the last of them.
C3_Witness ==
    /\ lastOp = "timer"
    /\ firstScheduleAt >= 0
    /\ firstScheduleAt < lastScheduleAt
    /\ now = lastScheduleAt + SaveDelay
    /\ ~isDirty

\* The store holds the model as it is, the active note holding what the
\* editor holds: the state a flush leaves.
Persisted ==
    /\ ~isDirty
    /\ stored = Snapshot(activeTabId, tabs)
    /\ ActiveIndex # 0 => tabs[ActiveIndex].content = getHTML(Cur)

C5_ExplicitFlushCancels ==
    [][ /\ (VisibilityHidden /\ saveTimer # NoTimer) =>
              /\ timers' = {}
              /\ saveTimer' = NoTimer
              /\ ~isDirty'
        /\ TimerFire => (isDirty /\ saveTimer # NoTimer)
      ]_vars

\* The page was hidden less than a window after a scheduleSave() call, as the
\* second event of the session: the timer of that call was pending, and now
\* nothing is armed.
C5_Witness ==
    /\ lastOp = "hidden"
    /\ events = 2
    /\ lastScheduleAt >= 0
    /\ now < lastScheduleAt + SaveDelay
    /\ timers = {}
    /\ saveTimer = NoTimer
    /\ ~isDirty

\* A step that runs STORAGE.flush(): the debounce timer's or the
\* visibilitychange listener's.
FlushStep == TimerFire \/ VisibilityHidden

\* C6: flush() in an initialized state writes the editor's content (as
\* EDITOR.getHTML returns it) into the active note and stamps it, changes no
\* other note, clears the dirty flag and the pending timer, and saves exactly
\* {activeTabId, tabs} of the model as it is after the capture.
C6_FlushCapturesAndSaves ==
    [][ (FlushStep /\ Initialized) =>
            /\ ActiveIndex # 0
            /\ Len(tabs') = Len(tabs)
            /\ tabs'[ActiveIndex] =
                  [tabs[ActiveIndex] EXCEPT !.content = getHTML(Cur),
                                            !.updatedAt = now]
            /\ \A k \in 1..Len(tabs) : k # ActiveIndex => tabs'[k] = tabs[k]
            /\ activeTabId' = activeTabId
            /\ ~isDirty'
            /\ saveTimer' = NoTimer
            /\ timers' = {}
            /\ stored' = Snapshot(activeTabId', tabs')
      ]_vars

\* A flush has just written a model of several notes whose active note
\* holds non-empty content captured at this moment.
C6_Witness ==
    /\ lastOp \in {"timer", "hidden"}
    /\ Initialized
    /\ Len(tabs) >= 2
    /\ stored = Snapshot(activeTabId, tabs)
    /\ tabs[ActiveIndex].content = getHTML(Cur)
    /\ tabs[ActiveIndex].content # ""
    /\ tabs[ActiveIndex].updatedAt = now
    /\ timers = {}

\* flush() is called with nothing to save: no pending timer, no dirty flag,
\* the editor holding what the active note stores.
CleanFlush ==
    /\ FlushStep
    /\ Initialized
    /\ ~isDirty
    /\ saveTimer = NoTimer
    /\ ActiveIndex # 0
    /\ tabs[ActiveIndex].content = getHTML(Cur)

\* C7 as claimed: such a flush leaves every field of every note, the note
\* order and activeTabId as they were.
C7_CleanFlushChangesNothing ==
    [][ CleanFlush => (tabs' = tabs /\ activeTabId' = activeTabId) ]_vars

\* C7, amended: such a flush changes nothing in the model but the active
\* note's updatedAt, which it sets to the time of the call; the scheduler
\* stays idle.
C7_CleanFlushOnlyStamps ==
    [][ CleanFlush =>
            /\ tabs' = [tabs EXCEPT ![ActiveIndex].updatedAt = now]
            /\ activeTabId' = activeTabId
            /\ ~isDirty'
            /\ saveTimer' = NoTimer
            /\ timers' = timers
      ]_vars

\* The page was hidden, some time into a session in which nothing was ever
\* scheduled and no switch is pending: the flush found nothing to save.
C7_Witness ==
    /\ lastOp = "hidden"
    /\ Initialized
    /\ lastScheduleAt = NeverScheduled
    /\ rafQueue = <<>>
    /\ Len(tabs) >= 2
    /\ now > 0
    /\ tabs[ActiveIndex].updatedAt = now
    /\ stored = Snapshot(activeTabId, tabs)

\* A step that is the call TABS.switchTo(id)
SwitchToStep(id) == TabsShown /\ Event("switchTo", switchTo(Cur, id, FALSE))

\* A frame that runs the callback of one switchTo(id) and nothing else, no
\* rename input being open
SwitchFrame(id) ==
    /\ AnimationFrame
    /\ renaming = Null
    /\ rafQueue = <<[kind |-> "switch", tabId |-> id]>>

\* C8: switchTo(id) for an existing id that is not active stores the
\* editor's content (as getHTML returns it) in the note that was active,
\* changes no other note and makes id the active one; its animation-frame
\* callback then hands the target note's stored content to EDITOR.setHTML and
\* schedules a save.
C8_SwitchTo ==
    [][ \A id \in TabIdSet :
          /\ (SwitchToStep(id) /\ id # activeTabId) =>
                /\ activeTabId' = id
                /\ ActiveIndex # 0
                /\ Len(tabs') = Len(tabs)
                /\ tabs'[ActiveIndex] =
                      [tabs[ActiveIndex] EXCEPT !.content = getHTML(Cur),
                                                !.updatedAt = now]
                /\ \A k \in 1..Len(tabs) :
                      k # ActiveIndex => tabs'[k] = tabs[k]
                /\ rafQueue' = Append(rafQueue, [kind |-> "switch", tabId |-> id])
          /\ SwitchFrame(id) =>
                /\ editorHTML' = normalizeHighlightColorsToTheme(
                                     tabs[findIndex(tabs, id)].content, theme)
                /\ tabs' = tabs
                /\ activeTabId' = activeTabId
                /\ isDirty'
                /\ timers' = {[id |-> saveTimer', due |-> now + SaveDelay]}
      ]_vars

\* The one event of the session was a switch to a stored note and its frame
\* has run: the note left behind was stamped by the switch and the editor
\* shows the target's content, which differs from it.
C8_Witness ==
    /\ lastOp = "frame"
    /\ events = 1
    /\ renaming = Null
    /\ rafQueue = <<>>
    /\ isDirty
    /\ tabs[ActiveIndex].updatedAt < 0
    /\ editorHTML = normalizeHighlightColorsToTheme(tabs[ActiveIndex].content, theme)
    /\ \E k \in 1..Len(tabs) :
          /\ k # ActiveIndex
          /\ tabs[k].updatedAt >= 0
          /\ tabs[k].content # tabs[ActiveIndex].content

\* C9: switchTo(id) with an id no note has changes nothing: not the notes,
\* not activeTabId, not the editor, not the scheduler.
C9_SwitchToUnknownIsNoOp ==
    [][ SwitchToStep(StaleId) =>
            UNCHANGED <<tabs, activeTabId, editorHTML, isDirty, saveTimer,
                        timers, rafQueue>>
      ]_vars

\* C10: switchTo(id) with the active id changes no note field, leaves the
\* editor alone and schedules nothing, now or in a later frame.
C10_SwitchToActiveIsNoOp ==
    [][ SwitchToStep(activeTabId) =>
            UNCHANGED <<tabs, activeTabId, editorHTML, isDirty, saveTimer,
                        timers, rafQueue, stored>>
      ]_vars

\* The one event of the session was a switchTo call that queued no callback:
\* it named the active note.
C10_Witness ==
    /\ lastOp = "switchTo"
    /\ Initialized
    /\ events = 1
    /\ rafQueue = <<>>
    /\ ~isDirty

\* C11: the ids of the notes are pairwise distinct in every state init() has
\* reached, also after two createTab() calls, or the first-run default and a
\* createTab() call, that read the same Date.now().
C11_IdsUnique ==
    Initialized =>
        \A i, j \in 1..Len(tabs) : i # j => tabs[i].id # tabs[j].id

\* C12: createTab() stores the editor's content (as getHTML returns it) in
\* the note that was active, appends one note with empty content and the name
\* "Note N", N being the number of notes before the call plus one, and leaves
\* that new note the active one, the note activeTabId resolves to; the notes
\* there were keep their ids, names and order.
C12_CreateTab ==
    [][ AddTab =>
            /\ ActiveIndex # 0
            /\ Len(tabs') = Len(tabs) + 1
            /\ tabs'[ActiveIndex].content = getHTML(Cur)
            /\ \A k \in 1..Len(tabs) :
                  /\ tabs'[k].id = tabs[k].id
                  /\ tabs'[k].name = tabs[k].name
                  /\ k # ActiveIndex => tabs'[k] = tabs[k]
            /\ tabs'[Len(tabs')].content = ""
            /\ tabs'[Len(tabs')].name = NoteName(Len(tabs) + 1)
            /\ findIndex(tabs', activeTabId') = Len(tabs')
      ]_vars

\* A step that is the call TABS.deleteTab(id), confirmed being the answer
\* given to its confirm() dialog if it gets to ask
DeleteTabCall(id, confirmed) ==
    /\ TabsShown
    /\ Event(IF confirmed THEN "deleteTab" ELSE "deleteTabDeclined",
             deleteTab(Cur, id, confirmed))

\* C13: deleteTab(id) called while the model holds exactly one note changes
\* nothing, whatever the id and the answer to a dialog would be: the notes,
\* activeTabId and the editor stay as they are and no save is scheduled.
C13_DeleteRefusedOnLastNote ==
    [][ \A id \in TabIdSet \cup {StaleId}, confirmed \in BOOLEAN :
          (DeleteTabCall(id, confirmed) /\ Len(tabs) = 1) =>
              UNCHANGED <<tabs, activeTabId, editorHTML, isDirty, saveTimer,
                          timers, rafQueue, stored, domIds>>
      ]_vars

\* deleteTab was called in a session that holds one note and has never
\* scheduled a save.
C13_Witness ==
    /\ lastOp = "deleteTab"
    /\ Initialized
    /\ events = 1
    /\ Len(tabs) = 1
    /\ activeTabId = tabs[1].id
    /\ ~isDirty
    /\ lastScheduleAt = NeverScheduled

\* C14: a confirmed deleteTab of the active note, the model holding at least
\* two notes, removes that note and activates the note that followed it, or
\* the new last note if it was the last: the note at index min(i, newLength-1)
\* of the remaining sequence, i being the index of the deleted one.  When the
\* call returns the editor has been given that note's stored content by
\* EDITOR.setHTML.
C14_DeleteActiveSelectsNeighbour ==
    [][ (DeleteTabCall(activeTabId, TRUE) /\ Len(tabs) >= 2 /\ ActiveIndex # 0) =>
            LET n == Min(ActiveIndex - 1, Len(tabs') - 1) + 1 IN
            /\ tabs' = removeAt(tabs, ActiveIndex)
            /\ tabs'[n] = IF ActiveIndex < Len(tabs)
                          THEN tabs[ActiveIndex + 1]
                          ELSE tabs[Len(tabs) - 1]
            /\ activeTabId' = tabs'[n].id
            /\ editorHTML' =
                  normalizeHighlightColorsToTheme(tabs'[n].content, theme)
            /\ rafQueue' = rafQueue
      ]_vars

\* The one event of the session deleted the active note, which was neither
\* the first nor the last of three: the note that followed it is active and
\* the editor shows its content.
C14_Witness ==
    /\ lastOp = "deleteTab"
    /\ events = 1
    /\ Len(stored.tabs) = 3
    /\ stored.activeTabId = stored.tabs[2].id
    /\ tabs = <<stored.tabs[1], stored.tabs[3]>>
    /\ activeTabId = tabs[2].id
    /\ editorHTML = tabs[2].content
    /\ editorHTML # ""

\* A step that is the commit closure of an open rename input holding value
CommitRenameStep(value) ==
    /\ renaming # Null
    /\ InHorizon
    /\ Step("commitRename", commitRename(Cur, value))

\* C15: committing a rename whose input is empty or all spaces leaves every
\* note (its name and updatedAt included) as it was and schedules no save;
\* committing one that holds more sets the note's name to the input without
\* its leading and trailing spaces, stamps the note and schedules a save.
\* In every state every note has a non-empty name.
C15_RenameCommit ==
    /\ [](\A k \in 1..Len(tabs) : tabs[k].name # "")
    /\ [][ \A value \in RenameInputs :
             CommitRenameStep(value) =>
                LET i == findIndex(tabs, renaming)
                    blank == \A k \in 1..Len(value) : value[k] = " "
                    expected == IF value = <<" ", "x", " ">> THEN "x" ELSE "x y"
                IN IF blank
                   THEN /\ tabs' = tabs
                        /\ UNCHANGED <<isDirty, saveTimer, timers, lastScheduleAt>>
                   ELSE /\ i # 0
                        /\ tabs' = [tabs EXCEPT ![i].name = expected,
                                                ![i].updatedAt = now]
                        /\ isDirty'
                        /\ timers' = {[id |-> saveTimer', due |-> now + SaveDelay]}
         ]_vars

\* A rename was committed with spaces around the typed name: the note carries
\* the name without them and a save is pending.
C15_Witness ==
    /\ lastOp = "commitRename"
    /\ isDirty
    /\ lastScheduleAt = now
    /\ renaming = Null
    /\ ActiveIndex # 0
    /\ tabs[ActiveIndex].name = "x"
    /\ tabs[ActiveIndex].updatedAt = now

\* C16: a drop of the dragged note d on the before or after half of another
\* note r, both in the notes list, leaves the same notes with d moved: d sits
\* immediately before r for "before" and immediately after r for "after",
\* and with d taken out the sequence is the one it was with d taken out, so
\* every other pair keeps its order.  A save is scheduled.
C16_Reorder ==
    [][ Drop =>
            LET f == findIndex(tabs, dragTabId)
                t == findIndex(tabs, dropTabId)
            IN (dragTabId # dropTabId /\ f # 0 /\ t # 0) =>
                 /\ dropPos \in {"before", "after"}
                 /\ Len(tabs') = Len(tabs)
                 /\ \E p \in 1..Len(tabs') :
                       /\ tabs'[p] = tabs[f]
                       /\ removeAt(tabs', p) = removeAt(tabs, f)
                       /\ IF dropPos = "after"
                          THEN p > 1 /\ tabs'[p - 1] = tabs[t]
                          ELSE p < Len(tabs') /\ tabs'[p + 1] = tabs[t]
                 /\ activeTabId' = activeTabId
                 /\ isDirty'
                 /\ timers' = {[id |-> saveTimer', due |-> now + SaveDelay]}
      ]_vars

\* The one gesture of the session dragged the first of three notes to the
\* end: the other two moved up in their order and a save is pending.
C16_Witness ==
    /\ lastOp = "drop"
    /\ events = 1
    /\ Len(stored.tabs) = 3
    /\ tabs = <<stored.tabs[2], stored.tabs[3], stored.tabs[1]>>
    /\ activeTabId = stored.activeTabId
    /\ isDirty
    /\ lastScheduleAt = now

\* A step that is a tab operation called with StaleId, an id no note has:
\* deleteTab, startRename, or a drop whose target or dragged id is StaleId
StaleIdCall ==
    \/ \E confirmed \in BOOLEAN : DeleteTabCall(StaleId, confirmed)
    \/ TabsShown /\ Event("startRename", startRename(Cur, StaleId))
    \/ Dragging /\ Step("drop", onDrop(Cur, StaleId))
    \/ Dragging /\ dragTabId = StaleId
                /\ \E id \in TabIdSet : Step("drop", onDrop(Cur, id))

\* A commit of the rename input startRename opened for StaleId
StaleCommit ==
    /\ renaming = StaleId
    /\ \E value \in RenameInputs : CommitRenameStep(value)

\* C17: deleteTab, rename (startRename, then the commit of its input) and
\* reorder called with an id no note has leave the notes, activeTabId and the
\* editor content as they were.
C17_StaleIdIsNoOp ==
    [][ (StaleIdCall \/ StaleCommit) =>
            UNCHANGED <<tabs, activeTabId, editorHTML>>
      ]_vars

\* What init() got from the store has no note to take over: nothing was
\* stored, or an object without a tabs list, or one with an empty list.
NothingToLoad ==
    ~(loadResult.present /\ loadResult.hasTabs /\ Len(loadResult.tabs) > 0)

\* C18: when the load resolves to nothing, or to an object whose tabs list
\* is missing or empty, init() leaves exactly one note, named "Note 1", with
\* empty content, and that note is the active one.
C18_DefaultNoteOnEmptyStore ==
    [][ (LoadComplete /\ NothingToLoad) =>
            /\ phase' = "ready"
            /\ Len(tabs') = 1
            /\ tabs'[1].name = "Note 1"
            /\ tabs'[1].content = ""
            /\ activeTabId' = tabs'[1].id
            /\ domIds' = <<tabs'[1].id>>
      ]_vars

\* init() has just run on a store that holds an empty tabs list, some
\* time after the popup opened, and made the default note.
C18_Witness ==
    /\ lastOp = "init"
    /\ Initialized
    /\ stored = Snapshot(Null, <<>>)
    /\ now > 0
    /\ tabs = <<[id |-> TabId(now), name |-> "Note 1", content |-> "",
                 createdAt |-> now, updatedAt |-> now]>>
    /\ activeTabId = TabId(now)

\* C19: when the load resolves to a state with at least one note, init()
\* takes over all its notes in their order; it keeps the stored activeTabId
\* if a stored note has that id and takes the first note's id if none has;
\* and it gives the content of the note that is then active to
\* EDITOR.setHTML.
C19_LoadValidatesActiveId ==
    [][ (LoadComplete /\ ~NothingToLoad) =>
            LET ts == loadResult.tabs
                resolves == \E k \in 1..Len(ts) : ts[k].id = loadResult.activeTabId
            IN /\ tabs' = ts
               /\ activeTabId' = IF resolves THEN loadResult.activeTabId
                                             ELSE ts[1].id
               /\ findIndex(tabs', activeTabId') # 0
               /\ editorHTML' =
                     normalizeHighlightColorsToTheme(
                         tabs'[findIndex(tabs', activeTabId')].content, theme)
               /\ domIds' = idsOf(ts)
      ]_vars

\* init() has just run on a store whose activeTabId no stored note has: both
\* stored notes are there, the first is active and the editor shows it.
C19_Witness ==
    /\ lastOp = "init"
    /\ Initialized
    /\ stored.activeTabId = StaleId
    /\ Len(tabs) = 2
    /\ tabs = stored.tabs
    /\ activeTabId = tabs[1].id
    /\ editorHTML = tabs[1].content
    /\ editorHTML # ""

\* C20: round trip.  What load() resolves to after a flush has saved is the
\* saved snapshot field for field: activeTabId and, note by note in the same
\* order, id, name, content, createdAt and updatedAt.  A popup closed while
\* the store holds its model and opened again gets that snapshot from its
\* get(), and its init() ends with the same notes in the same order and the
\* same active note, as it does for every loaded snapshot whose activeTabId
\* is the id of one of its notes.
C20_RoundTrip ==
    [][ /\ FlushStep =>
              LET got == load(stored') IN
              /\ got.present /\ got.hasTabs
              /\ got.activeTabId = activeTabId'
              /\ Len(got.tabs) = Len(tabs')
              /\ \A k \in 1..Len(tabs') :
                    /\ got.tabs[k].id = tabs'[k].id
                    /\ got.tabs[k].name = tabs'[k].name
                    /\ got.tabs[k].content = tabs'[k].content
                    /\ got.tabs[k].createdAt = tabs'[k].createdAt
                    /\ got.tabs[k].updatedAt = tabs'[k].updatedAt
        /\ (Reopen /\ Initialized /\ stored = Snapshot(activeTabId, tabs)) =>
              /\ loadResult' = Snapshot(activeTabId, tabs)
              /\ initLoaded(Cur', loadResult').tabs = tabs
              /\ initLoaded(Cur', loadResult').activeTabId = activeTabId
        /\ (LoadComplete /\ lastOp = "reopen" /\ ~NothingToLoad
                          /\ findIndex(loadResult.tabs, loadResult.activeTabId) # 0) =>
              /\ tabs' = loadResult.tabs
              /\ activeTabId' = loadResult.activeTabId
      ]_vars

\* The popup was hidden, closed and opened again, and init() has run: the
\* model is the stored snapshot, whose active note carries the stamp of the
\* flush made before the popup closed.
C20_Witness ==
    /\ lastOp = "init"
    /\ Initialized
    /\ events = 2
    /\ Len(tabs) >= 2
    /\ stored = Snapshot(activeTabId, tabs)
    /\ ActiveIndex # 0
    /\ tabs[ActiveIndex].createdAt < 0
    /\ tabs[ActiveIndex].updatedAt > 0
    /\ tabs[ActiveIndex].content # ""

\* A step that is the clearContent action, confirmed being the answer given
\* to its confirm() dialog
ClearContentCall(confirmed) ==
    /\ UserIdle
    /\ getHTML(Cur) # ""
    /\ Event(IF confirmed THEN "clear" ELSE "clearDeclined",
             clearContent(Cur, confirmed))

\* C21: deleteTab and the clearContent action act only on an accepted
\* confirmation.  Declined, they leave the notes, activeTabId, the editor and
\* the scheduler as they were; accepted, deleteTab removes the note and
\* clearContent empties the editor and schedules a save.  No step but an
\* accepted deleteTab makes the notes list shorter.
C21_ConfirmBeforeDestroying ==
    [][ /\ \A id \in TabIdSet :
              /\ DeleteTabCall(id, FALSE) =>
                    UNCHANGED <<tabs, activeTabId, editorHTML, isDirty,
                                saveTimer, timers, rafQueue, stored>>
              /\ (DeleteTabCall(id, TRUE) /\ Len(tabs) >= 2) =>
                    tabs' = removeAt(tabs, findIndex(tabs, id))
        /\ ClearContentCall(FALSE) =>
              UNCHANGED <<tabs, activeTabId, editorHTML, isDirty,
                          saveTimer, timers, rafQueue, stored>>
        /\ ClearContentCall(TRUE) => (editorHTML' = "" /\ isDirty')
        /\ Len(tabs') < Len(tabs) => lastOp' = "deleteTab"
      ]_vars

\* The two events of the session were a declined clearContent and a declined
\* deleteTab: the editor still holds its content, all stored notes are there
\* and nothing was ever scheduled.
C21_Witness ==
    /\ lastOp = "deleteTabDeclined"
    /\ events = 2
    /\ Len(tabs) >= 2
    /\ tabs = stored.tabs
    /\ editorHTML # ""
    /\ ~isDirty
    /\ lastScheduleAt = NeverScheduled
    /\ now = 0

\* C22: at any time at most one timeout is armed, and it is the one
\* STATE.saveTimer names.  A step that arms a timeout while one is pending
\* leaves only the new one, so a replaced timeout never runs: the timeout
\* that fires is the one STATE.saveTimer names, and after its flush none is
\* armed.
C22_AtMostOneTimer ==
    /\ [](/\ Cardinality(timers) <= 1
          /\ \A t \in timers : t.id = saveTimer)
    /\ [][ /\ (timers # {} /\ timers' # timers /\ timers' # {}) =>
                 timers' = {[id |-> saveTimer', due |-> now + SaveDelay]}
           /\ TimerFire =>
                 /\ timers = {[id |-> saveTimer, due |-> now]}
                 /\ timers' = {}
                 /\ saveTimer' = NoTimer
         ]_vars

\* A scheduleSave() call was just made while the timeout of an earlier call
\* was pending: one timeout is armed, due a window from now.
C22_Witness ==
    /\ isDirty
    /\ firstScheduleAt >= 0
    /\ firstScheduleAt < lastScheduleAt
    /\ lastScheduleAt = now
    /\ Cardinality(timers) = 1
    /\ timers = {[id |-> saveTimer, due |-> now + SaveDelay]}

\* What the entities of an escaped text stand for
unescapeHTML(es) ==
    [k \in 1..Len(es) |->
        IF es[k] = "&amp;" THEN "&"
        ELSE IF es[k] = "&lt;" THEN "<"
        ELSE IF es[k] = "&gt;" THEN ">"
        ELSE IF es[k] = "&quot;" THEN "\""
        ELSE es[k]]

\* The text a sequence of nodes shows: the text runs and the anchors' texts
\* in order, a <br> showing as a line end
RECURSIVE visibleText(_)
visibleText(nodes) ==
    IF nodes = <<>> THEN <<>>
    ELSE (IF Head(nodes).tag = "br" THEN <<"\n">>
          ELSE unescapeHTML(Head(nodes).text)) \o visibleText(Tail(nodes))

\* C23: for every URL linkifyPlainText finds, the link target and the anchor
\* text are the URL without its trailing run of . , ; : ! ? ) ] ' " and that
\* run stays as text right after the anchor, so that the output shows the
\* input text (line ends normalised).  For "see http://a.co/x, thanks" the
\* anchor wraps exactly http://a.co/x and the comma is text outside it.
C23_LinkifyKeepsTrailingPunctuation ==
    lastOp = "linkify" =>
        LET shown == normalizeNewlines(plainText) IN
        /\ visibleText(linkified) = shown
        /\ \A k \in 1..Len(linkified) :
              (linkified[k].tag = "a" /\ IsUrlToken(linkified[k].text)) =>
                 LET url == unescapeHTML(linkified[k].text)
                     start == Len(visibleText(SubSeq(linkified, 1, k - 1))) + 1
                     runEnd == nonSpaceEnd(shown, start)
                     rest == SubSeq(shown, start + Len(url), runEnd)
                 IN /\ linkified[k].href = linkified[k].text
                    /\ url[Len(url)] \notin TrailingPunctuation
                    /\ url = SubSeq(shown, start, start + Len(url) - 1)
                    /\ \A j \in 1..Len(rest) : rest[j] \in TrailingPunctuation
                    /\ rest # <<>> =>
                          /\ k < Len(linkified)
                          /\ linkified[k + 1] =
                                [tag |-> "#text", href |-> <<>>, text |-> rest]
        /\ plainText = ExampleLine =>
              linkified =
                 <<[tag |-> "#text", href |-> <<>>, text |-> <<"s", "e", "e", " ">>],
                   [tag |-> "a",
                    href |-> SubSeq(ExampleLine, 5, 17),
                    text |-> SubSeq(ExampleLine, 5, 17)],
                   [tag |-> "#text", href |-> <<>>, text |-> <<",">>],
                   [tag |-> "#text", href |-> <<>>,
                    text |-> SubSeq(ExampleLine, 19, Len(ExampleLine))]>>

\* The line of the example was linkified: one anchor, followed by the comma.
C23_Witness ==
    /\ lastOp = "linkify"
    /\ plainText = ExampleLine
    /\ Len(linkified) = 4
    /\ linkified[2].tag = "a"
    /\ linkified[2].text = SubSeq(ExampleLine, 5, 17)
    /\ linkified[3].text = <<",">>

\* The textContent of a sequence of editor nodes
RECURSIVE textContent(_)
textContent(nodes) ==
    IF nodes = <<>> THEN <<>> ELSE Head(nodes).text \o textContent(Tail(nodes))

\* C24: when tryAutoLinkBeforeCaret replaces the URL-like run that ends at
\* the caret, the text the editor shows is the text it showed before, no
\* character of the run being dropped; the anchor holds the run without its
\* trailing punctuation, which stays as text outside the link; and the caret
\* is at the start of the node right after the anchor.
C24_AutoLinkKeepsText ==
    lastOp = "autolink" =>
        /\ textContent(dom) = plainText
        /\ caret.node > 1
        /\ caret.offset = 0
        /\ dom[caret.node - 1].tag = "a"
        /\ dom[caret.node - 1].href = dom[caret.node - 1].text
        /\ IsUrlToken(dom[caret.node - 1].text)
        /\ dom[caret.node - 1].text[Len(dom[caret.node - 1].text)]
              \notin TrailingPunctuation

\* A callback of switchTo is waiting for its frame: the editor still shows
\* the note that was left, not the active one.
LoadPending == \E k \in 1..Len(rafQueue) : rafQueue[k].kind = "switch"

\* C25: a flush changes the content of no note but the one the editor is
\* showing: it stores nothing in a note other than the active one, and
\* nothing in the active one while the load of its content into the editor,
\* deferred by switchTo or createTab, has not run.
C25_FlushKeepsNotesApart ==
    [][ FlushStep =>
          /\ Len(tabs') = Len(tabs)
          /\ \A k \in 1..Len(tabs) :
                tabs'[k].content # tabs[k].content =>
                    k = ActiveIndex /\ ~LoadPending
      ]_vars

\* C26: when a second tab change, switchTo(C) or createTab(), comes before
\* the deferred load of the first switchTo(B) has run, it changes the content
\* of no note: B keeps the content it had, and the note that was active
\* first keeps the editor content that the first switch stored in it.
C26_SecondSwitchKeepsContents ==
    [][ ( /\ LoadPending
          /\ \/ AddTab
             \/ \E id \in TabIdSet : id # activeTabId /\ SwitchToStep(id) ) =>
          \A k \in 1..Len(tabs) : tabs'[k].content = tabs[k].content
      ]_vars

\* C27: when a frame has run every waiting callback of switchTo, the editor
\* holds what EDITOR.setHTML makes of the stored content of the note that is
\* active then, also when the note a callback was to load has been deleted
\* since the switch.
C27_LoadedAfterCallbacks ==
    [][ (AnimationFrame /\ LoadPending) =>
          /\ findIndex(tabs', activeTabId') # 0
          /\ editorHTML' = normalizeHighlightColorsToTheme(
                 tabs'[findIndex(tabs', activeTabId')].content, theme')
      ]_vars

\* C28: every snapshot a flush writes to the store holds at least one note
\* and an activeTabId that names one of its notes, also when the flush comes
\* from a scheduleSave() made before the initial load completed.
C28_WrittenSnapshotValid ==
    [][ FlushStep =>
          /\ stored'.present
          /\ Len(stored'.tabs) >= 1
          /\ findIndex(stored'.tabs, stored'.activeTabId) # 0
      ]_vars

\* C29: a confirmed deleteTab(id) of a note that is not the active one, among
\* two notes or more, removes that note and no other, leaves the ids, names,
\* contents and order of the remaining notes, the active id and the editor
\* as they were, loads nothing into the editor later, and schedules a save.
C29_DeleteNonActive ==
    [][ \A id \in TabIdSet :
          (DeleteTabCall(id, TRUE) /\ id # activeTabId /\ Len(tabs) >= 2) =>
              /\ tabs' = removeAt(tabs, findIndex(tabs, id))
              /\ Len(tabs') = Len(tabs) - 1
              /\ activeTabId' = activeTabId
              /\ editorHTML' = editorHTML
              /\ rafQueue' = rafQueue
              /\ isDirty'
              /\ timers' = {[id |-> saveTimer', due |-> now + SaveDelay]}
      ]_vars

\* The first of three stored notes, the second being active, has been
\* deleted: the other two are left in order, the second still active and
\* still in the editor, and a save is scheduled.
C29_Witness ==
    /\ lastOp = "deleteTab"
    /\ events = 1
    /\ Len(stored.tabs) = 3
    /\ stored.activeTabId = stored.tabs[2].id
    /\ tabs = <<stored.tabs[2], stored.tabs[3]>>
    /\ activeTabId = tabs[1].id
    /\ editorHTML = normalizeHighlightColorsToTheme(tabs[1].content, theme)
    /\ editorHTML # normalizeHighlightColorsToTheme(tabs[2].content, theme)
    /\ isDirty
    /\ saveTimer # NoTimer

\* A step that is a click on the body of the tab item of id
ItemClickOn(id) == TabsShown /\ InDom(id) /\ Event("click", itemClick(Cur, id))

\* C30: a click on the body of a tab that is not the active one makes it the
\* active one, whatever came before it: the first click after a completed
\* drag-and-drop reorder is not ignored because of the drag flag the drop set.
C30_ClickAlwaysSwitches ==
    [][ \A id \in TabIdSet :
          (ItemClickOn(id) /\ id # activeTabId) => activeTabId' = id
      ]_vars

====
